---- MODULE Spec2Model ----
(***************************************************************************)
(* Model of the Quick Recipes server (src/server): the four Express        *)
(* handlers of controllers/recipeControllers.js running against the        *)
(* Appwrite Record Store (database) and File Store (storage).              *)
(* Every handler is cut at its await points: the part of a handler that    *)
(* runs synchronously is one action, and each backend call it awaits is    *)
(* one action of the backend.  Several requests are in flight at once.     *)
(* A continuation that touches nothing but its own request and response    *)
(* (the last one of createRecipe, showRecipes and deleteRecipe) runs in     *)
(* the action of the backend call it waits for.                            *)
(***************************************************************************)
EXTENDS Integers, Sequences, FiniteSets, Bags, TLC

\* ---------------------------------------------------------------- bounds
MaxReq == 2        \* requests in flight at the same time
MaxUpdates == 2    \* updateRecipe requests handled altogether
MaxDocs == 2       \* documents ever created in the collection
MaxFiles == 2      \* files ever stored in the File Store
MaxTime == 2       \* largest value Date.now() takes
MaxPending == 1    \* updateDocument calls in flight at the same time

\* ------------------------------------------------------- values of fields
Undef == "<undefined>"     \* a property that is absent from a JS object
NoDate == -1               \* created_date absent from an object
NoImage == -1              \* image absent from an object
BogusImage == 0            \* an image value that is no file identifier
NoFile == "<no file>"      \* req.file when nothing was uploaded

ErrSyntax == "Unexpected token in JSON"
ErrType == "Cannot read property 'filename' of undefined"
ErrStorage == "storage error"
ErrDatabase == "database error"
ErrNotFound == "Document not found"
NoError == "<none>"

\* A JS object with the fields a recipe may carry.
Obj(n, i, r, d, im) ==
  [name |-> n, ingredients |-> i, recipe |-> r, created_date |-> d, image |-> im]

EmptyObj == Obj(Undef, Undef, Undef, NoDate, NoImage)

\* req.body.details as the multipart form carries it: absent, a string that
\* is not JSON, or the JSON text of an object.
AbsentDetails == [kind |-> "absent", obj |-> EmptyObj]
MalformedDetails == [kind |-> "malformed", obj |-> EmptyObj]
JsonDetails(o) == [kind |-> "json", obj |-> o]

SoupDetails == JsonDetails(Obj("Soup", "Water,Salt", "Boil", NoDate, NoImage))
NoNameDetails == JsonDetails(Obj(Undef, "Water,Salt", "Boil", NoDate, NoImage))
DatedDetails == JsonDetails(Obj("Soup", "Water,Salt", "Boil", 0, NoImage))

DetailsInputs ==
  {AbsentDetails, MalformedDetails, SoupDetails, NoNameDetails, DatedDetails}

FileInputs == {NoFile, "1630000000000soup.png"}

\* Bodies of PATCH /updateRecipe/:id: the fields to change.
NameBody == Obj("Stew", Undef, Undef, NoDate, NoImage)
EmptyNameBody == Obj("", Undef, Undef, NoDate, NoImage)
ImageBody == Obj(Undef, Undef, Undef, NoDate, BogusImage)
DateBody == Obj(Undef, Undef, Undef, 0, NoImage)

BodyInputs == {NameBody, EmptyNameBody, ImageBody, DateBody}

IdInputs == 1..MaxDocs

VARIABLES
  now,         \* Date.now()
  files,       \* File Store: the identifiers of the stored files
  docs,        \* Record Store: document id -> document
  lastId,      \* Record Store: the last document id assigned
  pending,     \* updateDocument calls issued and not yet settled (a bag)
  req,         \* the requests being handled (a bag)
  updates,     \* the number of updateRecipe requests handled
  finished,    \* the request whose handler has just ended, with its response
  deleted200   \* history: ids whose deleteRecipe was answered with 200

\* The local disk of the server, written by the upload middleware.
VARIABLES
  disk,        \* ./public/uploads/images: filename -> the bytes of the file
  uploads      \* the createRecipe requests with an image, in order of arrival

uploadSide == <<disk, uploads>>

\* The browser client: the App component and the Recipe component.
VARIABLES
  accountGet,  \* App: the account.get() call: pending, resolved or rejected
  appPc,       \* App: where the callback of account.get() stands
  loading,     \* App: state loading
  loggedIn,    \* App: state loggedIn
  recipes,     \* Recipe: state recipes, as the identity of the array it holds
  effect,      \* Recipe: the effect on [recipes] is due to run
  gets,        \* Recipe: getRecipes requests in flight
  sent,        \* Recipe: getRecipes requests sent so far
  error,       \* Recipe: state error
  success,     \* Recipe: state success
  posts        \* Recipe: create and update requests in flight (a bag)

clientSide == <<accountGet, appPc, loading, loggedIn, recipes, effect, gets,
                sent, error, success, posts>>

\* The client SDK: realtime.
VARIABLES
  channels,     \* realtime.channels: channel -> the message callbacks, in order
  saved,        \* savedChannels of every subscribe call, in order of the calls
  unsubscribed, \* the subscribe calls whose unsubscribe function was called
  socket,       \* realtime.socket: its readyState and message listeners
  timeout,      \* realtime.timeout: the timer set by subscribe is pending
  reconnects,   \* timers set by close listeners and not yet fired
  closing,      \* sockets closed whose close event has not yet fired
  lastMessage,  \* realtime.lastMessage
  created,      \* the number of createSocket calls
  dropped       \* the number of connections dropped by the network or server

realtimeSide == <<channels, saved, unsubscribed, socket, timeout, reconnects,
                  closing, lastMessage, created, dropped>>

\* What the handlers of the Recipe Service leave alone.
outside == <<uploadSide, clientSide, realtimeSide>>

\* What the Recipe Service and its backend hold.
server == <<now, files, docs, lastId, pending, req, updates, finished, deleted200>>

vars == <<server, outside>>

\* ------------------------------------------------------------ JSON.parse
JSONparseThrows(details) == details.kind # "json"
JSONparse(details) == details.obj

\* ----------------------------------------------------------- File Store
\* storage.createFile: the File Store assigns the next identifier.
NextFileId == Cardinality(files) + 1
StoreFile == files \cup {NextFileId}

\* ---------------------------------------------------------- Record Store
\* database.createDocument: the document gets a fresh $id and the fields of
\* the data (a field whose value is undefined is not serialised).
NewDocument(id, data) == [id |-> id, fields |-> data]
CreateDocument(data) == docs @@ ((lastId + 1) :> NewDocument(lastId + 1, data))

\* database.updateDocument: the fields named in data replace the document's.
Merge(doc, data) ==
  [id |-> doc.id,
   fields |->
     Obj(IF data.name = Undef THEN doc.fields.name ELSE data.name,
         IF data.ingredients = Undef THEN doc.fields.ingredients ELSE data.ingredients,
         IF data.recipe = Undef THEN doc.fields.recipe ELSE data.recipe,
         IF data.created_date = NoDate THEN doc.fields.created_date ELSE data.created_date,
         IF data.image = NoImage THEN doc.fields.image ELSE data.image)]

UpdateDocument(id, data) == [docs EXCEPT ![id] = Merge(docs[id], data)]

\* database.deleteDocument: what is left of the collection.
DeleteDocument(id) == [k \in DOMAIN docs \ {id} |-> docs[k]]

\* The orderings of the document ids in which a document with a larger value
\* of created_date comes before one with a smaller value ("DESC"), or after
\* it ("ASC"); the backend orders documents of equal value as it likes.
IsOrdering(s, S) ==
  /\ Len(s) = Cardinality(S)
  /\ \A x \in S : \E k \in 1..Len(s) : s[k] = x

Orderings(S) == {s \in [1..Cardinality(S) -> S] : IsOrdering(s, S)}

DescByCreatedDate(s) ==
  \A j, k \in 1..Len(s) :
    docs[s[j]].fields.created_date > docs[s[k]].fields.created_date => j < k

AscByCreatedDate(s) ==
  \A j, k \in 1..Len(s) :
    docs[s[j]].fields.created_date < docs[s[k]].fields.created_date => j < k

Ordered(orderField, orderType, s) ==
  IF orderField = "created_date"
  THEN IF orderType = "DESC" THEN DescByCreatedDate(s) ELSE AscByCreatedDate(s)
  ELSE TRUE

\* What a limit leaves of s (limit undefined: nothing is cut by the request).
NoLimit == -1
Limited(s, limit) ==
  IF limit = NoLimit \/ limit >= Len(s) THEN s ELSE SubSeq(s, 1, limit)

\* database.listDocuments(collection, filters, limit, offset, orderField,
\* orderType): the results the backend may return.
ListDocuments(limit, orderField, orderType) ==
  {[documents |-> [k \in 1..Len(Limited(s, limit)) |-> docs[s[k]]],
    sum |-> Cardinality(DOMAIN docs)] :
     s \in {p \in Orderings(DOMAIN docs) : Ordered(orderField, orderType, p)}}

NoData == [documents |-> <<>>, sum |-> 0]

\* -------------------------------------------------------------- requests
NoDoc == NewDocument(0, EmptyObj)

EmptyBody ==
  [kind |-> "none", error |-> NoError, createdData |-> NoDoc,
   createdImage |-> 0, data |-> NoData]
\* { error: err.message }
ErrorBody(m) == [EmptyBody EXCEPT !.kind = "error", !.error = m]
\* { createdData, createdImage }
CreatedBody(d, im) ==
  [EmptyBody EXCEPT !.kind = "created", !.createdData = d, !.createdImage = im]
\* the result of listDocuments
DataBody(d) == [EmptyBody EXCEPT !.kind = "data", !.data = d]
\* a function, and a Promise, handed to res.json
FunctionBody == [EmptyBody EXCEPT !.kind = "function"]
PromiseBody == [EmptyBody EXCEPT !.kind = "promise"]

\* A request: the handler (kind), where it stands (pc), its inputs (details,
\* file, id, update), its locals (createdImage, newRecipe, createdData, err),
\* the backend calls it has made (calls), the ids that were answered as
\* deleted when it came in (seenDeleted) and its response (status, body).
Request(kind, pc) ==
  [kind |-> kind, pc |-> pc,
   details |-> AbsentDetails, file |-> NoFile, id |-> 0, update |-> EmptyObj,
   createdImage |-> 0, newRecipe |-> EmptyObj, createdData |-> NoDoc,
   err |-> NoError, seenDeleted |-> {}, calls |-> <<>>,
   status |-> 0, body |-> EmptyBody]

NoRequest == Request("none", "idle")

\* res.status(s).json(b)
Respond(s, status, body) ==
  [s EXCEPT !.pc = "done", !.status = status, !.body = body]

\* A handler has ended when it has responded or an exception has left it.
Ended(s) == s.pc \in {"done", "unhandledRejection"}

\* A request comes in and its handler runs up to its first await, as s.
Begin(s) ==
  /\ finished = NoRequest
  /\ BagCardinality(req) < MaxReq
  /\ IF Ended(s)
     THEN /\ req' = req
          /\ finished' = s
     ELSE /\ req' = req (+) SetToBag({s})
          /\ finished' = finished

\* The handler of request s goes on and stands as t.
Continue(s, t) ==
  /\ finished = NoRequest
  /\ BagIn(s, req)
  /\ IF Ended(t)
     THEN /\ req' = req (-) SetToBag({s})
          /\ finished' = t
     ELSE /\ req' = (req (-) SetToBag({s})) (+) SetToBag({t})
          /\ finished' = finished

InFlight(pc) == {s \in BagToSet(req) : s.pc = pc}

Init ==
  /\ now = 1
  /\ files = {}
  /\ docs = <<>>
  /\ lastId = 0
  /\ pending = EmptyBag
  /\ req = EmptyBag
  /\ updates = 0
  /\ finished = NoRequest
  /\ deleted200 = {}
  /\ disk = <<>>
  /\ uploads = <<>>
  /\ accountGet = "pending"
  /\ appPc = "wait"
  /\ loading = TRUE
  /\ loggedIn = FALSE
  /\ recipes = 0
  /\ effect = FALSE
  /\ gets = 0
  /\ sent = 0
  /\ error = ""
  /\ success = ""
  /\ posts = EmptyBag
  /\ channels = [c \in {"files", "account"} |-> <<>>]
  /\ saved = <<>>
  /\ unsubscribed = {}
  /\ socket = [readyState |-> "NONE", listeners |-> {}]
  /\ timeout = FALSE
  /\ reconnects = 0
  /\ closing = 0
  /\ lastMessage = "undefined"
  /\ created = 0
  /\ dropped = 0

\* Date.now() advances.
Tick ==
  /\ finished = NoRequest
  /\ now < MaxTime
  /\ now' = now + 1
  /\ UNCHANGED <<files, docs, lastId, pending, req, updates, finished, deleted200>>
  /\ UNCHANGED outside

\* The response reaches the client.
Deliver ==
  /\ finished # NoRequest
  /\ finished' = NoRequest
  /\ UNCHANGED <<now, files, docs, lastId, pending, req, updates, deleted200>>
  /\ UNCHANGED outside

\* ---------------------------------------------------------- createRecipe
\* A createRecipe that would call storage.createFile before it parses
\* details.
createRecipeStartFileFirst(details, file) ==
  LET s == [Request("createRecipe", "createFile") EXCEPT
              !.details = details, !.file = file]
  IN IF file = NoFile
     THEN Respond([s EXCEPT !.err = ErrType], 400, ErrorBody(ErrType))
     ELSE [s EXCEPT !.calls = <<"createFile">>]

\* POST /createRecipe, up to the call of storage.createFile: JSON.parse
\* throws on absent or malformed details, and file.filename throws when
\* nothing was uploaded; the catch block answers 400.
createRecipeStart(details, file) ==
  LET s == [Request("createRecipe", "createFile") EXCEPT
              !.details = details, !.file = file]
  IN IF JSONparseThrows(details)
     THEN Respond([s EXCEPT !.err = ErrSyntax], 400, ErrorBody(ErrSyntax))
     ELSE IF file = NoFile
     THEN Respond([s EXCEPT !.err = ErrType], 400, ErrorBody(ErrType))
     ELSE [s EXCEPT !.calls = <<"createFile">>]

createRecipe ==
  /\ \E details \in DetailsInputs, file \in FileInputs :
       Begin(createRecipeStart(details, file))
  /\ UNCHANGED <<now, files, docs, lastId, pending, updates, deleted200>>
  /\ UNCHANGED outside

\* The File Store settles storage.createFile: the file is stored and its
\* metadata returned, or the call fails.
createFile ==
  /\ \E s \in InFlight("createFile") :
       \/ /\ Cardinality(files) < MaxFiles
          /\ files' = StoreFile
          /\ Continue(s, [s EXCEPT !.pc = "afterCreateFile",
                                   !.createdImage = NextFileId])
       \/ /\ files' = files
          /\ Continue(s, [s EXCEPT !.pc = "afterCreateFile",
                                   !.err = ErrStorage])
  /\ UNCHANGED <<now, docs, lastId, pending, updates, deleted200>>
  /\ UNCHANGED outside

\* createRecipeResumeFile with the image taken from the file stored last,
\* whichever request stored it.
createRecipeResumeFileLatest(s, date) ==
  LET data == JSONparse(s.details)
  IN IF s.err # NoError
     THEN Respond(s, 400, ErrorBody(s.err))
     ELSE [s EXCEPT !.pc = "createDocument",
                    !.newRecipe = Obj(data.name, data.ingredients, data.recipe,
                                      date, Cardinality(files)),
                    !.calls = Append(s.calls, "createDocument")]

\* createRecipeResumeFile going on to createDocument after a failed
\* createFile.
createRecipeResumeFileNoCatch(s, date) ==
  LET data == JSONparse(s.details)
  IN [s EXCEPT !.pc = "createDocument",
               !.newRecipe = Obj(data.name, data.ingredients, data.recipe,
                                 date, s.createdImage),
               !.calls = Append(s.calls, "createDocument")]

\* createRecipeResumeFile calling storage.createFile again after a failure.
createRecipeResumeFileRetry(s, date) ==
  LET data == JSONparse(s.details)
  IN IF s.err # NoError
     THEN [s EXCEPT !.pc = "createFile", !.err = NoError,
                    !.calls = Append(s.calls, "createFile")]
     ELSE [s EXCEPT !.pc = "createDocument",
                    !.newRecipe = Obj(data.name, data.ingredients, data.recipe,
                                      date, s.createdImage),
                    !.calls = Append(s.calls, "createDocument")]

\* createRecipe after the await of createFile: a failure goes to the catch
\* block; otherwise newRecipe is built and database.createDocument called.
createRecipeResumeFile(s, date) ==
  LET data == JSONparse(s.details)
  IN IF s.err # NoError
     THEN Respond(s, 400, ErrorBody(s.err))
     ELSE [s EXCEPT !.pc = "createDocument",
                    !.newRecipe = Obj(data.name, data.ingredients, data.recipe,
                                      date, s.createdImage),
                    !.calls = Append(s.calls, "createDocument")]

createRecipeAfterFile ==
  /\ \E s \in InFlight("afterCreateFile") :
       Continue(s, createRecipeResumeFile(s, now))
  /\ UNCHANGED <<now, files, docs, lastId, pending, updates, deleted200>>
  /\ UNCHANGED outside

\* createRecipeResumeDocument answering 201 whatever createDocument did.
createRecipeResumeDocumentAlways201(s) ==
  Respond(s, 201, CreatedBody(s.createdData, s.createdImage))

\* createRecipe after the await of createDocument.
createRecipeResumeDocument(s) ==
  IF s.err # NoError
  THEN Respond(s, 400, ErrorBody(s.err))
  ELSE Respond(s, 201, CreatedBody(s.createdData, s.createdImage))

\* A catch block that would delete the file the request stored.
createRecipeCatchStorageCompensating(s) == files \ {s.createdImage}

\* The File Store after the catch block of createRecipe, which makes no
\* storage call: the file the request stored stays.
createRecipeCatchStorage(s) == files

\* The Record Store settles database.createDocument and createRecipe
\* responds.
createDocument ==
  /\ \E s \in InFlight("createDocument") :
       \/ /\ lastId < MaxDocs
          /\ docs' = CreateDocument(s.newRecipe)
          /\ lastId' = lastId + 1
          /\ Continue(s, createRecipeResumeDocument(
                           [s EXCEPT !.createdData =
                                       NewDocument(lastId + 1, s.newRecipe)]))
          /\ files' = files
       \/ /\ UNCHANGED <<docs, lastId>>
          /\ Continue(s, createRecipeResumeDocument(
                           [s EXCEPT !.err = ErrDatabase]))
          /\ files' = createRecipeCatchStorage(s)
  /\ UNCHANGED <<now, pending, updates, deleted200>>
  /\ UNCHANGED outside

\* ----------------------------------------------------------- showRecipes
\* What showRecipes hands to database.listDocuments after the collection:
\* filters, limit and offset undefined, orderField, orderType.
showRecipesQueryAsc ==
  [limit |-> NoLimit, orderField |-> "created_date", orderType |-> "ASC"]

showRecipesQueryLimit1 ==
  [limit |-> 1, orderField |-> "created_date", orderType |-> "DESC"]

showRecipesQuery ==
  [limit |-> NoLimit, orderField |-> "created_date", orderType |-> "DESC"]

\* GET /getRecipes, up to the call of database.listDocuments.
showRecipes ==
  /\ Begin([Request("showRecipes", "listDocuments") EXCEPT
              !.seenDeleted = deleted200, !.calls = <<"listDocuments">>])
  /\ UNCHANGED <<now, files, docs, lastId, pending, updates, deleted200>>
  /\ UNCHANGED outside

\* showRecipes after the await.
showRecipesResume(s, data) ==
  IF s.err # NoError
  THEN Respond(s, 400, ErrorBody(s.err))
  ELSE Respond(s, 200, DataBody(data))

\* The Record Store settles database.listDocuments and showRecipes responds.
listDocuments ==
  /\ \E s \in InFlight("listDocuments") :
       \/ \E d \in ListDocuments(showRecipesQuery.limit,
                                 showRecipesQuery.orderField,
                                 showRecipesQuery.orderType) :
            Continue(s, showRecipesResume(s, d))
       \/ Continue(s, showRecipesResume([s EXCEPT !.err = ErrDatabase], NoData))
  /\ UNCHANGED <<now, files, docs, lastId, pending, updates, deleted200>>
  /\ UNCHANGED outside

\* ---------------------------------------------------------- deleteRecipe
\* DELETE /deleteRecipe/:id, up to the call of database.deleteDocument.
deleteRecipe ==
  /\ \E id \in IdInputs :
       Begin([Request("deleteRecipe", "deleteDocument") EXCEPT
                !.id = id, !.calls = <<"deleteDocument">>])
  /\ UNCHANGED <<now, files, docs, lastId, pending, updates, deleted200>>
  /\ UNCHANGED outside

\* deleteRecipeResume answering with what database.deleteDocument returned.
deleteRecipeResumeResult(s) ==
  IF s.err # NoError
  THEN [s EXCEPT !.pc = "unhandledRejection"]
  ELSE Respond(s, 200, DataBody(NoData))

\* deleteRecipeResume answering 200 whatever deleteDocument did.
deleteRecipeResumeAlways200(s) == Respond(s, 200, FunctionBody)

\* deleteRecipe after the await: 200 with the handler function as the body;
\* on failure the catch block names its parameter error and reads
\* err.message, which throws a ReferenceError out of the handler: the
\* request gets no response.
deleteRecipeResume(s) ==
  IF s.err # NoError
  THEN [s EXCEPT !.pc = "unhandledRejection"]
  ELSE Respond(s, 200, FunctionBody)

\* A deleteRecipe that would delete the file the record refers to.
deleteRecipeStorageCleanup(s) ==
  IF s.id \in DOMAIN docs THEN files \ {docs[s.id].fields.image} ELSE files

\* The File Store after deleteRecipe, which makes no storage call.
deleteRecipeStorage(s) == files

\* The Record Store settles database.deleteDocument (the document is
\* removed, or the call fails: no such document, or the backend is down)
\* and deleteRecipe goes on.
deleteDocument ==
  /\ \E s \in InFlight("deleteDocument"), ok \in BOOLEAN :
       LET t == deleteRecipeResume(
                  IF ok THEN s
                  ELSE [s EXCEPT !.err = IF s.id \in DOMAIN docs
                                         THEN ErrDatabase ELSE ErrNotFound])
       IN /\ ok => s.id \in DOMAIN docs
          /\ docs' = IF ok THEN DeleteDocument(s.id) ELSE docs
          /\ Continue(s, t)
          /\ deleted200' = IF t.status = 200 THEN deleted200 \cup {s.id}
                           ELSE deleted200
          /\ files' = deleteRecipeStorage(s)
  /\ UNCHANGED <<now, lastId, pending, updates>>
  /\ UNCHANGED outside

\* ---------------------------------------------------------- updateRecipe
\* PATCH /updateRecipe/:id: the handler is not async and does not await:
\* it calls database.updateDocument and answers 201 with the pending
\* Promise at once.
updateRecipeRun(id, body) ==
  Respond([Request("updateRecipe", "updateDocument") EXCEPT
             !.id = id, !.update = body, !.calls = <<"updateDocument">>],
          201, PromiseBody)

\* A handler that would send a whole record, the fields the body leaves out
\* as empty strings.
updateDocumentCallWhole(id, body) ==
  [id |-> id,
   data |-> [body EXCEPT
               !.ingredients = IF @ = Undef THEN "" ELSE @,
               !.recipe = IF @ = Undef THEN "" ELSE @]]

\* A handler that would stamp the data with the time of the request.
updateDocumentCallStamped(id, body) ==
  [id |-> id, data |-> [body EXCEPT !.created_date = now]]

\* database.updateDocument(COLLECTION_ID, id, updatedRecipe): the document
\* and the data the call names.
updateDocumentCall(id, body) == [id |-> id, data |-> body]

\* A call in flight, with the request (id, body) that issued it.
updateRecipe ==
  /\ updates < MaxUpdates
  /\ BagCardinality(pending) < MaxPending
  /\ \E id \in IdInputs, body \in BodyInputs :
       /\ pending' = pending (+) SetToBag({[id |-> id, body |-> body,
                                            call |-> updateDocumentCall(id, body)]})
       /\ Begin(updateRecipeRun(id, body))
  /\ updates' = updates + 1
  /\ UNCHANGED <<now, files, docs, lastId, deleted200>>
  /\ UNCHANGED outside

\* The Record Store settles a database.updateDocument call in flight: the
\* document is changed, or the call fails and nothing handles the rejection.
updateDocument ==
  /\ finished = NoRequest
  /\ \E u \in BagToSet(pending) :
       /\ pending' = pending (-) SetToBag({u})
       /\ \/ /\ u.call.id \in DOMAIN docs
             /\ docs' = UpdateDocument(u.call.id, u.call.data)
          \/ docs' = docs
  /\ UNCHANGED <<now, files, lastId, req, updates, finished, deleted200>>
  /\ UNCHANGED outside

Next ==
  \/ Tick
  \/ Deliver
  \/ createRecipe
  \/ createFile
  \/ createRecipeAfterFile
  \/ createDocument
  \/ showRecipes
  \/ listDocuments
  \/ deleteRecipe
  \/ deleteDocument
  \/ updateRecipe
  \/ updateDocument

Spec == Init /\ [][Next]_vars

\* ================================================================ claims
\* The request whose handler has just ended.
Answered(kind) == finished.kind = kind /\ finished.pc = "done"

\* details is the JSON text of an object with the three fields, none empty.
ValidDetails(d) ==
  /\ d.kind = "json"
  /\ d.obj.name \notin {Undef, ""}
  /\ d.obj.ingredients \notin {Undef, ""}
  /\ d.obj.recipe \notin {Undef, ""}

\* C1: a createRecipe request with valid details and no uploaded image is
\* answered with 201, the File Store is not called, and the record persisted
\* has the three fields of the details, a creation timestamp and no image.
C1_CreateWithoutImage ==
  (/\ finished.kind = "createRecipe"
   /\ ValidDetails(finished.details)
   /\ finished.file = NoFile)
  => /\ finished.pc = "done"
     /\ finished.status = 201
     /\ finished.calls = <<"createDocument">>
     /\ finished.body.createdData.id \in DOMAIN docs
     /\ LET f == docs[finished.body.createdData.id].fields
        IN /\ f.name = finished.details.obj.name
           /\ f.ingredients = finished.details.obj.ingredients
           /\ f.recipe = finished.details.obj.recipe
           /\ f.created_date >= 1
           /\ f.image = NoImage

\* C2: when a createRecipe request with an uploaded image has both backend
\* calls succeed, the response is 201 and the image of the persisted record
\* is the identifier the File Store returned to that request.
C2_ImageIsOwnFile ==
  (/\ finished.kind = "createRecipe"
   /\ finished.file # NoFile
   /\ finished.calls = <<"createFile", "createDocument">>
   /\ finished.err = NoError)
  => /\ finished.pc = "done"
     /\ finished.status = 201
     /\ finished.createdImage \in files
     /\ finished.body.createdImage = finished.createdImage
     /\ finished.body.createdData.id \in DOMAIN docs
     /\ docs[finished.body.createdData.id].fields.image = finished.createdImage

\* A create answered 201 whose file is not the one stored last: another
\* request stored a file while this one was in flight.
C2_Witness ==
  /\ Answered("createRecipe")
  /\ finished.status = 201
  /\ finished.createdImage = 1
  /\ Cardinality(files) = 2

\* C3: whenever a record of the Record Store has an image reference, the
\* file it refers to was in the File Store before the step that wrote the
\* reference (createFile completes before createDocument is issued).
C3_ImageRefersToStoredFile ==
  [][\A id \in DOMAIN docs' :
       docs'[id].fields.image # NoImage => docs'[id].fields.image \in files]_vars

\* C4: when the File Store call of a createRecipe request fails, the
\* response is 400 with the error message and the request has made no
\* Record Store call.
C4_FileFailureStops ==
  (finished.kind = "createRecipe" /\ finished.err = ErrStorage)
  => /\ finished.pc = "done"
     /\ finished.status = 400
     /\ finished.body = ErrorBody(ErrStorage)
     /\ finished.calls = <<"createFile">>
     /\ finished.createdData = NoDoc

C4_Witness ==
  /\ Answered("createRecipe")
  /\ finished.err = ErrStorage
  /\ finished.status = 400
  /\ lastId = 1

\* C5: createRecipe answers 201 with {createdData, createdImage} exactly
\* when the Record Store create succeeded, createdData being the record
\* persisted; it answers 400 with the error message when the create failed.
C5_CreatedExactlyOnSuccess ==
  finished.kind = "createRecipe"
  => /\ finished.pc = "done"
     /\ finished.status \in {201, 400}
     /\ (finished.status = 201) = (finished.createdData # NoDoc)
     /\ finished.status = 201 =>
          /\ finished.body = CreatedBody(finished.createdData,
                                         finished.createdImage)
          /\ finished.createdData.id = lastId
          /\ finished.createdData.id \in DOMAIN docs
          /\ docs[finished.createdData.id] = finished.createdData
     /\ finished.status = 400 => finished.body = ErrorBody(finished.err)
     /\ finished.err = ErrDatabase =>
          /\ finished.status = 400
          /\ finished.calls = <<"createFile", "createDocument">>

\* The Record Store create failed after the file was stored.
C5_Witness ==
  /\ Answered("createRecipe")
  /\ finished.err = ErrDatabase
  /\ finished.status = 400
  /\ finished.createdImage \in files

\* C6: a createRecipe request whose details lack name is answered with 400
\* and creates no record.
C6_MissingNameRejected ==
  (/\ finished.kind = "createRecipe"
   /\ finished.details.kind = "json"
   /\ finished.details.obj.name = Undef)
  => /\ finished.status = 400
     /\ finished.createdData = NoDoc

\* C7: every record of the Record Store has non-empty name, ingredients and
\* recipe.
C7_FieldsNonEmpty ==
  \A id \in DOMAIN docs :
    /\ docs[id].fields.name \notin {Undef, ""}
    /\ docs[id].fields.ingredients \notin {Undef, ""}
    /\ docs[id].fields.recipe \notin {Undef, ""}

C9_ListIsWholeCollection ==
  (finished.kind = "showRecipes" /\ finished.status = 200)
  => LET d == finished.body.data.documents
     IN /\ finished.body.kind = "data"
        /\ Len(d) = Cardinality(DOMAIN docs)
        /\ \A id \in DOMAIN docs : \E k \in 1..Len(d) : d[k] = docs[id]
        /\ \A j, k \in 1..Len(d) : d[j].id = d[k].id => j = k

\* Two records listed with equal created_date.
C9_Witness ==
  /\ Answered("showRecipes")
  /\ finished.status = 200
  /\ Cardinality(DOMAIN docs) = 2
  /\ Len(finished.body.data.documents) = 2
  /\ finished.body.data.documents[1].fields.created_date
       = finished.body.data.documents[2].fields.created_date

\* C10: a deleteRecipe whose deleteDocument succeeded is answered with 200
\* and the record is gone; a showRecipes request that came in after an id
\* was answered as deleted lists no record with that id.
C10_DeletedStaysOut ==
  /\ (finished.kind = "deleteRecipe" /\ finished.err = NoError)
     => /\ finished.pc = "done"
        /\ finished.status = 200
        /\ finished.id \notin DOMAIN docs
  /\ (finished.kind = "showRecipes" /\ finished.status = 200)
     => \A k \in 1..Len(finished.body.data.documents) :
          finished.body.data.documents[k].id \notin finished.seenDeleted
  /\ deleted200 \cap DOMAIN docs = {}

\* A list requested after a delete was answered: the other record is in it.
C10_Witness ==
  /\ Answered("showRecipes")
  /\ finished.status = 200
  /\ finished.seenDeleted # {}
  /\ Len(finished.body.data.documents) = 1

\* C11: when the Record Store delete call of a deleteRecipe request fails,
\* the request is answered with 400 and {error: message} carrying the
\* backend's error message.
C11_DeleteFailureAnswered ==
  (finished.kind = "deleteRecipe" /\ finished.err # NoError)
  => /\ finished.pc = "done"
     /\ finished.status = 400
     /\ finished.body = ErrorBody(finished.err)

\* C12: an updateRecipe whose Record Store update fails is answered with 400
\* and {error: message}, never with 201.  A target id that is not in the
\* collection when the handler runs makes the update fail: ids are not
\* assigned twice.
C12_UpdateFailureAnswered ==
  (finished.kind = "updateRecipe" /\ finished.id \notin DOMAIN docs)
  => /\ finished.status = 400
     /\ finished.body.kind = "error"

\* C13: when updateRecipe sends its 201, the Record Store update issued for
\* the request has completed and the body is the updated record.
C13_UpdateAnsweredAfterCompletion ==
  (finished.kind = "updateRecipe" /\ finished.status = 201)
  => /\ \A u \in BagToSet(pending) :
          ~(u.id = finished.id /\ u.body = finished.update)
     /\ finished.id \in DOMAIN docs
     /\ docs[finished.id] = Merge(docs[finished.id], finished.update)
     /\ finished.body.kind # "promise"
     /\ finished.body.createdData = docs[finished.id]

\* The body of an updateRecipe request that contains only `name`.
OnlyName(body) ==
  /\ body.name # Undef
  /\ body = [EmptyObj EXCEPT !.name = body.name]

\* The step in which the Record Store settles the call of request u.
Settles(u) ==
  /\ BagIn(u, pending)
  /\ pending' = pending (-) SetToBag({u})

\* C14: when the Record Store applies the update of an updateRecipe request
\* whose body contains only `name` to an existing record, the record's name
\* becomes the body's name; its ingredients, recipe, creation time and image
\* reference, and every other record, are as before.  (A call the backend
\* fails changes nothing.)
C14_NameOnlyUpdateFrame ==
  [][\A u \in BagToSet(pending) :
       (Settles(u) /\ OnlyName(u.body) /\ u.id \in DOMAIN docs)
       => \/ docs' = docs
          \/ docs' = [docs EXCEPT ![u.id].fields.name = u.body.name]]_vars

\* A name-only update has been applied to one of two records: the record
\* has the new name and the ingredients and recipe it was created with, and
\* the other record keeps its name.
C14_Witness ==
  /\ updates >= 1
  /\ \E id, other \in DOMAIN docs :
       /\ id # other
       /\ docs[id].fields.name = NameBody.name
       /\ docs[id].fields.ingredients = SoupDetails.obj.ingredients
       /\ docs[id].fields.recipe = SoupDetails.obj.recipe
       /\ docs[id].fields.image \in files
       /\ docs[other].fields.name = SoupDetails.obj.name

\* The record u names already has every field that the body of u gives.
Reflects(u) ==
  /\ u.id \in DOMAIN docs
  /\ docs[u.id] = Merge(docs[u.id], u.body)

\* C15: the same updateRecipe request issued a second time leaves the Record
\* Store as the first left it.  Every settled update keeps the set of record
\* ids and leaves the record with the fields of the body; and an update
\* whose record already has the fields of the body changes nothing.
C15_UpdateIdempotent ==
  [][\A u \in BagToSet(pending) :
       Settles(u)
       => \/ docs' = docs
          \/ /\ ~Reflects(u)
             /\ DOMAIN docs' = DOMAIN docs
             /\ docs'[u.id] = Merge(docs'[u.id], u.body)]_vars

\* The second of two updateRecipe requests is in flight and the record
\* already has the fields of its body, changed by the first.
C15_Witness ==
  /\ updates = 2
  /\ \E u \in BagToSet(pending) :
       /\ u.body = NameBody
       /\ Reflects(u)

\* C16: the creation timestamp of a record is written only at creation, by
\* the Recipe Service: a record that appears carries a server time (never
\* the created_date of the create payload), and no step changes the
\* creation timestamp of a record that stays.
C16_CreatedDateWrittenOnce ==
  [][/\ \A id \in DOMAIN docs' \ DOMAIN docs :
          docs'[id].fields.created_date \in 1..now
     /\ \A id \in DOMAIN docs' \cap DOMAIN docs :
          docs'[id].fields.created_date = docs[id].fields.created_date]_vars

\* ------------------------------------------------- client: createNewRecipe
\* What the create form holds when it is submitted.
FormInputs == {Obj("Soup", "Water,Salt", "Boil", NoDate, NoImage)}

\* axios.post(".../createRecipe", newRecipe): the form's object is the JSON
\* body itself, so the request has no `details` field and carries no file,
\* whatever the form holds.
createNewRecipeRequest(newRecipe) == [details |-> AbsentDetails, file |-> NoFile]

\* The message the component sets when the post settles: axios resolves on
\* a 2xx status and rejects otherwise.
SuccessMessage == " New Recipe added Successfully !"
FailureMessage == "Failed to add new Recipe !"
createNewRecipeMessage(status) ==
  IF status \in 200..299 THEN SuccessMessage ELSE FailureMessage

\* C17: a createRecipe request as the client's create form sends it is
\* accepted: it is answered 201, the record is persisted, and the client
\* shows the success message.
C17_ClientCreateAccepted ==
  \A newRecipe \in FormInputs :
    (/\ finished.kind = "createRecipe"
     /\ finished.details = createNewRecipeRequest(newRecipe).details
     /\ finished.file = createNewRecipeRequest(newRecipe).file)
    => /\ finished.status = 201
       /\ finished.createdData.id \in DOMAIN docs
       /\ createNewRecipeMessage(finished.status) = SuccessMessage

\* C18: when the Record Store create of a createRecipe request fails after
\* its file was stored, the request is answered 400, no record is persisted
\* and the File Store is left as it is: the stored file remains.
C18_FileOrphanedOnCreateFailure ==
  [][(/\ finished = NoRequest
      /\ finished'.kind = "createRecipe"
      /\ finished'.err = ErrDatabase)
     => /\ finished'.status = 400
        /\ finished'.createdData = NoDoc
        /\ docs' = docs
        /\ finished'.createdImage \in files
        /\ files' = files]_vars

\* The only file stored is the one of a request whose record create failed,
\* and there is no record.
C18_Witness ==
  /\ finished.kind = "createRecipe"
  /\ finished.err = ErrDatabase
  /\ files = {finished.createdImage}
  /\ docs = <<>>
  /\ lastId = 0

\* A step of a deleteRecipe request: the handler starts, or the Record Store
\* settles its call and the handler ends.
deleteRecipeStep ==
  \/ \E s \in BagToSet(req') :
       s.kind = "deleteRecipe" /\ CopiesIn(s, req') > CopiesIn(s, req)
  \/ finished = NoRequest /\ finished'.kind = "deleteRecipe"

\* C19: no step of deleteRecipe changes the File Store; the file the deleted
\* record refers to is still stored after the delete.
C19_DeleteLeavesFiles ==
  [][deleteRecipeStep
     => /\ files' = files
        /\ \A id \in DOMAIN docs \ DOMAIN docs' :
             docs[id].fields.image \in files
             => docs[id].fields.image \in files']_vars

\* The one record created, with its image, has been deleted with 200, and
\* its file is still stored.
C19_Witness ==
  /\ finished.kind = "deleteRecipe"
  /\ finished.status = 200
  /\ lastId = 1
  /\ docs = <<>>
  /\ Cardinality(files) = 1

\* C20: a createRecipe request whose details are absent or not valid JSON
\* is answered 400 and calls neither the File Store nor the Record Store.
C20_BadDetailsRejected ==
  (finished.kind = "createRecipe" /\ finished.details.kind # "json")
  => /\ finished.status = 400
     /\ finished.body = ErrorBody(ErrSyntax)
     /\ finished.calls = <<>>
     /\ finished.createdData = NoDoc

\* A request with an image and details that are not JSON has been refused.
C20_Witness ==
  /\ finished.kind = "createRecipe"
  /\ finished.details = MalformedDetails
  /\ finished.file # NoFile
  /\ finished.status = 400

\* The backend calls a handler makes when nothing fails, in order.
HandlerCalls(kind) ==
  CASE kind = "createRecipe" -> <<"createFile", "createDocument">>
    [] kind = "showRecipes" -> <<"listDocuments">>
    [] kind = "deleteRecipe" -> <<"deleteDocument">>
    [] kind = "updateRecipe" -> <<"updateDocument">>
    [] OTHER -> <<>>

IsPrefix(s, t) == Len(s) <= Len(t) /\ s = SubSeq(t, 1, Len(s))

\* The requests being handled and the one that has just ended.
Requests == BagToSet(req) \cup ({finished} \ {NoRequest})

\* C21: no handler retries.  The backend calls of a request are a prefix of
\* its handler's calls, each made once; and a request whose call has failed
\* has made no call after it: the failed call is the last one.
C21_NoRetry ==
  \A s \in Requests :
    /\ IsPrefix(s.calls, HandlerCalls(s.kind))
    /\ s.err \in {ErrSyntax, ErrType} => s.calls = <<>>
    /\ s.err = ErrStorage => s.calls = <<"createFile">>
    /\ s.err \in {ErrDatabase, ErrNotFound} => s.calls = HandlerCalls(s.kind)

\* A deleteRecipe has ended on a failed delete call while a createRecipe
\* whose createFile failed has not yet gone on.
C21_Witness ==
  /\ finished.kind = "deleteRecipe"
  /\ finished.err \in {ErrDatabase, ErrNotFound}
  /\ \E s \in BagToSet(req) : s.kind = "createRecipe" /\ s.err = ErrStorage

\* ------------------------------------------- upload middleware and the disk
\* createRecipe seen with the local disk: upload.single("image") names and
\* writes the uploaded file, the handler streams it to the File Store and
\* persists the record.  An upload is known by its bytes.
MaxUploads == 2

OriginalNames == {"soup.png", "stew.png"}

NoBytes == 0
\* What a file holds after two writers wrote it at once.
Garbled == -1

\* filename: callback(null, Date.now() + file.originalname)
multerFilename(time, originalname) == ToString(time) \o originalname

\* The n-th upload, named by the middleware at the given time.
Upload(n, time, originalname) ==
  [bytes |-> n, originalname |-> originalname,
   filename |-> multerFilename(time, originalname), pc |-> "write",
   streamed |-> NoBytes, createdImage |-> NoImage, newRecipe |-> EmptyObj,
   createdData |-> NoDoc, err |-> NoError, status |-> 0]

\* What createRecipe and the upload middleware leave alone.
beyondUpload == <<clientSide, realtimeSide>>

\* A request with an image arrives and the middleware names its file.
uploadSingle ==
  /\ Len(uploads) < MaxUploads
  /\ \E originalname \in OriginalNames :
       uploads' = Append(uploads, Upload(Len(uploads) + 1, now, originalname))
  /\ UNCHANGED <<disk, server>>
  /\ UNCHANGED beyondUpload

\* The uploads whose files are being written under the filename of r.
WritingWith(i) ==
  {j \in DOMAIN uploads \ {i} :
     uploads[j].pc = "write" /\ uploads[j].filename = uploads[i].filename}

\* The middleware has written the file to the destination, replacing what
\* was there, and hands the request to createRecipe.  Two writers of one
\* file leave the bytes of one of them or a mix.
diskStorage ==
  /\ \E i \in DOMAIN uploads :
       /\ uploads[i].pc = "write"
       /\ \E b \in {uploads[i].bytes} \cup
                   (IF WritingWith(i) = {} THEN {} ELSE {Garbled}) :
            disk' = (uploads[i].filename :> b) @@ disk
       /\ uploads' = [uploads EXCEPT ![i].pc = "createFile"]
  /\ UNCHANGED server
  /\ UNCHANGED beyondUpload

\* createReadStream(`./public/uploads/images/${file.filename}`): the bytes
\* the file holds when it is streamed.
createReadStream(r) == disk[r.filename]

\* A createRecipe that would remove the uploaded file when it ends.
createRecipeDiskUnlink(r) ==
  [f \in DOMAIN disk \ {r.filename} |-> disk[f]]

\* The disk after createRecipe, which makes no call that removes a file.
createRecipeDisk(r) == disk

\* storage.createFile settles: the bytes streamed are stored and the handler
\* goes on to database.createDocument, or the call fails and the handler
\* answers 400.
streamUpload ==
  /\ \E i \in DOMAIN uploads :
       LET r == [uploads[i] EXCEPT !.streamed = createReadStream(uploads[i])]
       IN /\ uploads[i].pc = "createFile"
          /\ \/ /\ Cardinality(files) < MaxFiles
                /\ files' = StoreFile
                /\ uploads' =
                     [uploads EXCEPT ![i] =
                        [r EXCEPT !.pc = "createDocument",
                                  !.createdImage = NextFileId,
                                  !.newRecipe =
                                    Obj(SoupDetails.obj.name,
                                        SoupDetails.obj.ingredients,
                                        SoupDetails.obj.recipe,
                                        now, NextFileId)]]
                /\ disk' = disk
             \/ /\ files' = files
                /\ uploads' = [uploads EXCEPT ![i] =
                                 [r EXCEPT !.pc = "done", !.err = ErrStorage,
                                           !.status = 400]]
                /\ disk' = createRecipeDisk(r)
  /\ UNCHANGED <<now, docs, lastId, pending, req, updates, finished, deleted200>>
  /\ UNCHANGED beyondUpload

\* database.createDocument settles and createRecipe responds.
persistUpload ==
  /\ \E i \in DOMAIN uploads :
       LET r == uploads[i]
       IN /\ r.pc = "createDocument"
          /\ \/ /\ lastId < MaxDocs
                /\ docs' = CreateDocument(r.newRecipe)
                /\ lastId' = lastId + 1
                /\ uploads' =
                     [uploads EXCEPT ![i] =
                        [r EXCEPT !.pc = "done", !.status = 201,
                                  !.createdData =
                                    NewDocument(lastId + 1, r.newRecipe)]]
             \/ /\ UNCHANGED <<docs, lastId>>
                /\ uploads' = [uploads EXCEPT ![i] =
                                 [r EXCEPT !.pc = "done", !.err = ErrDatabase,
                                           !.status = 400]]
          /\ disk' = createRecipeDisk(r)
  /\ UNCHANGED <<now, files, pending, req, updates, finished, deleted200>>
  /\ UNCHANGED beyondUpload

UploadNext ==
  \/ Tick
  \/ uploadSingle
  \/ diskStorage
  \/ streamUpload
  \/ persistUpload

UploadSpec == Init /\ [][UploadNext]_vars

\* C22: the filenames the middleware gives to two uploads in flight are
\* distinct, and every request streams to the File Store the bytes uploaded
\* in that request.
C22_UploadsDoNotCollide ==
  /\ \A i, j \in DOMAIN uploads :
       (i # j /\ uploads[i].pc # "done" /\ uploads[j].pc # "done")
       => uploads[i].filename # uploads[j].filename
  /\ \A i \in DOMAIN uploads :
       uploads[i].streamed \in {NoBytes, uploads[i].bytes}

\* C23: createRecipe never removes the uploaded file.  No step takes a file
\* from the disk, and when a request ends, with 201 or with 400, its file
\* is on the disk.
C23_UploadedFilesStay ==
  [][/\ DOMAIN disk \subseteq DOMAIN disk'
     /\ \A i \in DOMAIN uploads :
          (uploads[i].pc # "done" /\ uploads'[i].pc = "done")
          => uploads'[i].filename \in DOMAIN disk']_vars

\* One request has ended with 201 and another with 400 after the record
\* create failed, and the files of both are on the disk.
C23_Witness ==
  \E i, j \in DOMAIN uploads :
    /\ uploads[i].status = 201
    /\ uploads[j].status = 400
    /\ uploads[j].err = ErrDatabase
    /\ uploads[i].filename # uploads[j].filename
    /\ {uploads[i].filename, uploads[j].filename} \subseteq DOMAIN disk

\* C24: the 200 of deleteRecipe, sent when the delete succeeded, carries the
\* handler function deleteRecipe itself, not what the Record Store returned.
C24_DeleteBodyIsFunction ==
  finished.kind = "deleteRecipe"
  => /\ (finished.status = 200) = (finished.err = NoError)
     /\ finished.status = 200 => finished.body = FunctionBody

\* A record has been deleted and the answer carries the function.
C24_Witness ==
  /\ finished.kind = "deleteRecipe"
  /\ finished.body = FunctionBody
  /\ finished.id \in deleted200
  /\ finished.id \notin DOMAIN docs

\* C25: a handler never ends without having answered its request: whatever
\* the backend call did, the request that has ended has its response, and
\* no exception has left the handler.
C25_EveryRequestAnswered ==
  finished # NoRequest
  => /\ finished.pc # "unhandledRejection"
     /\ finished.status \in {200, 201, 400}

\* ------------------------------------------------------- client: App, Recipe
MaxLists == 3
MaxPosts == 2

\* What the client components leave alone.
beyondClient == <<server, uploadSide, realtimeSide>>

\* App rendering the Recipe UI whenever loggedIn, whatever loading is.
AppRenderNoLoading == IF loggedIn THEN "Recipe" ELSE "Login"

\* What App renders: the loading indicator, the Recipe UI or the Login
\* prompt.
AppRender ==
  IF loading THEN "Loading" ELSE IF loggedIn THEN "Recipe" ELSE "Login"

\* The account.get() call of App's effect settles.
App_accountGet ==
  /\ accountGet = "pending"
  /\ accountGet' \in {"resolved", "rejected"}
  /\ appPc' = "callback"
  /\ UNCHANGED <<loading, loggedIn, recipes, effect, gets, sent, error,
                 success, posts>>
  /\ UNCHANGED beyondClient

\* The then callback of account.get(): setloading(false), setLoggedIn(true).
\* React renders once after the callback, or after each set call; in both
\* cases Recipe mounts, and its effect is due, when loggedIn becomes true.
App_then ==
  /\ accountGet = "resolved"
  /\ \/ /\ appPc = "callback"
        /\ loading' = FALSE
        /\ \/ loggedIn' = TRUE /\ appPc' = "done" /\ effect' = TRUE
           \/ loggedIn' = loggedIn /\ appPc' = "setLoggedIn" /\ effect' = effect
     \/ /\ appPc = "setLoggedIn"
        /\ loading' = loading
        /\ loggedIn' = TRUE /\ appPc' = "done" /\ effect' = TRUE
  /\ UNCHANGED <<accountGet, recipes, gets, sent, error, success, posts>>
  /\ UNCHANGED beyondClient

\* The catch callback of account.get(): setloading(false),
\* setLoggedIn(false).
App_catch ==
  /\ accountGet = "rejected"
  /\ appPc = "callback"
  /\ loading' = FALSE
  /\ loggedIn' = FALSE
  /\ appPc' = "done"
  /\ UNCHANGED <<accountGet, recipes, effect, gets, sent, error, success, posts>>
  /\ UNCHANGED beyondClient

\* useEffect(..., [recipes]): the effect runs again when the array in
\* recipes is not the one of the last render (Object.is).
EffectDue(prev, next) == prev # next

\* The effect of Recipe runs: axios.get(".../getRecipes").
Recipe_useEffect ==
  /\ AppRender = "Recipe"
  /\ effect
  /\ sent < MaxLists
  /\ effect' = FALSE
  /\ gets' = gets + 1
  /\ sent' = sent + 1
  /\ UNCHANGED <<accountGet, appPc, loading, loggedIn, recipes, error, success,
                 posts>>
  /\ UNCHANGED beyondClient

\* setRecipes(data.documents): the array parsed from this response, a new
\* one for every response, whatever it holds.
ParsedDocuments == recipes + 1

\* A getRecipes request succeeds: setRecipes(data.documents).
Recipe_getRecipesThen ==
  /\ gets > 0
  /\ gets' = gets - 1
  /\ recipes' = ParsedDocuments
  /\ effect' = (effect \/ EffectDue(recipes, ParsedDocuments))
  /\ UNCHANGED <<accountGet, appPc, loading, loggedIn, sent, error, success,
                 posts>>
  /\ UNCHANGED beyondClient

\* A getRecipes request fails: console.log(err).
Recipe_getRecipesCatch ==
  /\ gets > 0
  /\ gets' = gets - 1
  /\ UNCHANGED <<accountGet, appPc, loading, loggedIn, recipes, effect, sent,
                 error, success, posts>>
  /\ UNCHANGED beyondClient

UpdatedMessage == "Recipe updated successfully!"
NotUpdatedMessage == "Uh Oh!, Error Occured : Recipe Could not be updated "

\* createNewRecipe and updateRecipe of Recipe: the request is sent, then
\* setError("") and setSuccess("").
Recipe_submit ==
  /\ AppRender = "Recipe"
  /\ BagCardinality(posts) < MaxPosts
  /\ \E form \in {"createNewRecipe", "updateRecipe"} :
       posts' = posts (+) SetToBag({form})
  /\ error' = ""
  /\ success' = ""
  /\ UNCHANGED <<accountGet, appPc, loading, loggedIn, recipes, effect, gets,
                 sent>>
  /\ UNCHANGED beyondClient

\* The then callback of a create or update request: setSuccess(message).
Recipe_submitThen ==
  /\ \E form \in BagToSet(posts) :
       /\ posts' = posts (-) SetToBag({form})
       /\ success' = IF form = "createNewRecipe"
                     THEN createNewRecipeMessage(201) ELSE UpdatedMessage
  /\ UNCHANGED <<accountGet, appPc, loading, loggedIn, recipes, effect, gets,
                 sent, error>>
  /\ UNCHANGED beyondClient

\* The catch callback of a create or update request: setError(message).
Recipe_submitCatch ==
  /\ \E form \in BagToSet(posts) :
       /\ posts' = posts (-) SetToBag({form})
       /\ error' = IF form = "createNewRecipe"
                   THEN createNewRecipeMessage(400) ELSE NotUpdatedMessage
  /\ UNCHANGED <<accountGet, appPc, loading, loggedIn, recipes, effect, gets,
                 sent, success>>
  /\ UNCHANGED beyondClient

ClientNext ==
  \/ App_accountGet
  \/ App_then
  \/ App_catch
  \/ Recipe_useEffect
  \/ Recipe_getRecipesThen
  \/ Recipe_getRecipesCatch
  \/ Recipe_submit
  \/ Recipe_submitThen
  \/ Recipe_submitCatch

ClientSpec == Init /\ [][ClientNext]_vars

\* C26: a successful list response does not make the Recipe component send
\* another list request: after the request sent at mount, no getRecipes
\* request is sent, and handling a response leaves no effect due.
C26_ListResponseDoesNotRefetch ==
  [][/\ recipes' # recipes => ~effect'
     /\ sent' > sent => sent = 0]_vars

\* C27: the error message and the success message of the Recipe component
\* are never both non-empty.
C27_MessagesExclusive == ~(error # "" /\ success # "")

\* C28: App renders the Recipe UI only when account.get() has succeeded and
\* loading is false and loggedIn true; while the call is pending it renders
\* the loading indicator; after the call failed it never renders the Recipe
\* UI, and once the catch callback has run it renders the Login prompt.
C28_RecipeOnlyWhenLoggedIn ==
  /\ AppRender = "Recipe" => (accountGet = "resolved" /\ ~loading /\ loggedIn)
  /\ accountGet = "pending" => AppRender = "Loading"
  /\ accountGet = "rejected" =>
       /\ AppRender # "Recipe"
       /\ appPc = "done" => AppRender = "Login"

\* The call has succeeded, its callback has run and the Recipe UI is
\* rendered and has sent its first list request.
C28_Witness ==
  /\ accountGet = "resolved"
  /\ appPc = "done"
  /\ AppRender = "Recipe"
  /\ sent = 1

\* ------------------------------------------------- client SDK: realtime
MaxSubs == 3
MaxSockets == 4
MaxDrops == 1

ChannelNames == {"files", "account"}

\* The channels argument of subscribe: one channel or several.
ChannelInputs == {<<"files">>, <<"account">>, <<"files", "account">>}

\* What the SDK's realtime code leaves alone.
beyondRealtime == <<server, uploadSide, clientSide>>

\* this.realtime.onMessage(channel, callback): the listener made for
\* channel by the k-th subscribe call.
onMessage(k, channel) == [sub |-> k, channel |-> channel]

NoSocket == [readyState |-> "NONE", listeners |-> {}]

\* Every callback of every channel, as createSocket adds them to the socket.
Callbacks ==
  UNION {{channels[c][i] : i \in DOMAIN channels[c]} : c \in ChannelNames}

InArray(array, channel) == \E i \in DOMAIN array : array[i] = channel

\* subscribe(channels, callback): for each channel the listener is pushed
\* and its index kept; the 1 ms timer of createSocket is set again.
subscribe ==
  /\ Len(saved) < MaxSubs
  /\ \E channelArray \in ChannelInputs :
       LET k == Len(saved) + 1
       IN /\ channels' =
               [c \in ChannelNames |->
                  IF InArray(channelArray, c)
                  THEN Append(channels[c], onMessage(k, c))
                  ELSE channels[c]]
          /\ saved' =
               Append(saved,
                      [i \in DOMAIN channelArray |->
                         [name |-> channelArray[i],
                          index |-> Len(channels[channelArray[i]]) + 1]])
  /\ timeout' = TRUE
  /\ UNCHANGED <<unsubscribed, socket, reconnects, closing, lastMessage,
                 created, dropped>>
  /\ UNCHANGED beyondRealtime

\* array.splice(index, 1): the element at index is taken out, if there is
\* one.
Splice(array, index) ==
  IF index \in DOMAIN array
  THEN SubSeq(array, 1, index - 1) \o SubSeq(array, index + 1, Len(array))
  ELSE array

\* The index a subscribe call kept for a channel (0: it did not name it).
SavedIndex(k, c) ==
  IF \E i \in DOMAIN saved[k] : saved[k][i].name = c
  THEN (CHOOSE e \in {saved[k][i] : i \in DOMAIN saved[k]} : e.name = c).index
  ELSE 0

\* The function subscribe returned: for each saved channel, the listener
\* now at the saved index is removed from the socket and the element at
\* the saved index is spliced out of the channel's list.
unsubscribe ==
  /\ \E k \in DOMAIN saved \ unsubscribed :
       /\ unsubscribed' = unsubscribed \cup {k}
       /\ channels' = [c \in ChannelNames |->
                         Splice(channels[c], SavedIndex(k, c))]
       /\ socket' =
            [socket EXCEPT !.listeners =
               @ \ {channels[c][SavedIndex(k, c)] :
                      c \in {d \in ChannelNames :
                               SavedIndex(k, d) \in DOMAIN channels[d]}}]
  /\ UNCHANGED <<saved, timeout, reconnects, closing, lastMessage, created,
                 dropped>>
  /\ UNCHANGED beyondRealtime

\* realtime.createSocket(): an open socket is closed, and a new socket is
\* made with the callbacks of every channel as message listeners.
createSocket ==
  /\ created < MaxSockets
  /\ created' = created + 1
  /\ closing' = IF socket.readyState = "OPEN" THEN closing + 1 ELSE closing
  /\ socket' = [readyState |-> "CONNECTING", listeners |-> Callbacks]

\* The timer set by subscribe fires.
subscribeTimeout ==
  /\ timeout
  /\ timeout' = FALSE
  /\ createSocket
  /\ UNCHANGED <<channels, saved, unsubscribed, reconnects, lastMessage,
                 dropped>>
  /\ UNCHANGED beyondRealtime

\* The connection of the socket is established.
socketOpen ==
  /\ socket.readyState = "CONNECTING"
  /\ socket' = [socket EXCEPT !.readyState = "OPEN"]
  /\ UNCHANGED <<channels, saved, unsubscribed, timeout, reconnects, closing,
                 lastMessage, created, dropped>>
  /\ UNCHANGED beyondRealtime

\* A message reaches the listeners of the open socket: an event, or the
\* error with which the server refuses the connection (code 1008).
socketMessage ==
  /\ socket.readyState = "OPEN"
  /\ socket.listeners # {}
  /\ lastMessage' \in {"event", "error1008"}
  /\ UNCHANGED <<channels, saved, unsubscribed, socket, timeout, reconnects,
                 closing, created, dropped>>
  /\ UNCHANGED beyondRealtime

\* The network or the server drops the connection of the socket.
socketDrop ==
  /\ socket.readyState = "OPEN"
  /\ dropped < MaxDrops
  /\ dropped' = dropped + 1
  /\ socket' = [socket EXCEPT !.readyState = "CLOSED"]
  /\ closing' = closing + 1
  /\ UNCHANGED <<channels, saved, unsubscribed, timeout, reconnects,
                 lastMessage, created>>
  /\ UNCHANGED beyondRealtime

\* The close listener of a closed socket runs: unless the last message was
\* the error 1008, createSocket is set to run in one second.
socketClose ==
  /\ closing > 0
  /\ closing' = closing - 1
  /\ reconnects' = IF lastMessage = "error1008" THEN reconnects
                   ELSE reconnects + 1
  /\ UNCHANGED <<channels, saved, unsubscribed, socket, timeout, lastMessage,
                 created, dropped>>
  /\ UNCHANGED beyondRealtime

\* A timer set by a close listener fires.
reconnectTimeout ==
  /\ reconnects > 0
  /\ reconnects' = reconnects - 1
  /\ createSocket
  /\ UNCHANGED <<channels, saved, unsubscribed, timeout, lastMessage, dropped>>
  /\ UNCHANGED beyondRealtime

RealtimeNext ==
  \/ subscribe
  \/ unsubscribe
  \/ subscribeTimeout
  \/ socketOpen
  \/ socketMessage
  \/ socketDrop
  \/ socketClose
  \/ reconnectTimeout

RealtimeSpec == Init /\ [][RealtimeNext]_vars

\* The listeners that the k-th subscribe call made.
CallbacksOf(k) == {onMessage(k, c) : c \in ChannelNames}

\* C29: calling the unsubscribe function of a subscription takes exactly
\* the message callbacks of that subscription out of the channel lists and
\* off the socket; every other callback stays registered.
C29_UnsubscribeRemovesOwn ==
  [][\A k \in DOMAIN saved :
       (k \notin unsubscribed /\ k \in unsubscribed')
       => /\ \A c \in ChannelNames :
               channels'[c] =
                 SelectSeq(channels[c], LAMBDA cb : cb \notin CallbacksOf(k))
          /\ socket'.listeners = socket.listeners \ CallbacksOf(k)]_vars

\* C30: with no subscribe call left to come, createSocket runs finitely
\* often: every run answers a subscribe call or a dropped connection, so a
\* socket closed by createSocket itself starts no further run.
C30_NoReconnectCycle == created <= Len(saved) + dropped

====
